---- MODULE Spec2Model ----
(***************************************************************************)
(* State-machine model of the crawl core of dev-snake/craw_data:           *)
(*   core/queue_manager.py     CrawlQueue                                  *)
(*   core/robots_checker.py    RobotsChecker                               *)
(*   core/crawler_async.py     AsyncCrawler.fetch (attempts and delays)    *)
(*   core/crawler_playwright.py PlaywrightCrawler.fetch_html               *)
(*   core/smart_extractor.py   SmartExtractor.extract_auto (pattern cache) *)
(*   core/dual_mode_engine.py  DualModeEngine.fetch / fetch_and_extract    *)
(*   core/scale_handler.py     ScaleHandler.crawl / crawl_multi_domain     *)
(*                                                                         *)
(* Time is counted in ticks of half a second.  Ages ("ticks since ...")    *)
(* saturate at DomainDelay: an age of DomainDelay reads "at least           *)
(* domain_delay ago, or never".                                            *)
(***************************************************************************)
EXTENDS Integers, Sequences, FiniteSets, TLC

\* ------------------------------------------------------------------------
\* Bounds of the model
\* ------------------------------------------------------------------------
MaxRuns == 2
Retry == 2
MaxItems == 2
CheckpointInterval == 2
ConfigMaxPages == 2
MaxPagesArg == 1
MaxPerDomain == 1
MaxDur == 1
MaxPageNo == 11
MaxAnchors == 3
MaxElements == 2
MaxTasks == 3
MaxPriceLen == 5
MaxBatch == 3
max_concurrency == 2

\* ------------------------------------------------------------------------
\* Program constants (ticks of 0.5 s)
\* ------------------------------------------------------------------------
DomainDelay == 2
DelayMin == 1
DelayMax == 3

\* ------------------------------------------------------------------------
\* The modelled site
\* ------------------------------------------------------------------------
None == "None"
Hosts == {"a", "b"}
URLs == {"a/1", "a/2", "a/private/x", "b/1"}

\* ScaleHandler._get_domain / DualModeEngine._get_domain: urlparse(url).netloc
_get_domain(u) ==
    CASE u = "a/1" -> "a"
      [] u = "a/2" -> "a"
      [] u = "a/private/x" -> "a"
      [] u = "b/1" -> "b"

\* seed lists handed to crawl / crawl_multi_domain
SeedLists ==
    { <<"a/1", "a/1">>, <<"a/1", "a/2">>,
      <<"a/private/x", "a/2">>, <<"a/1", "b/1">> }

Range(s) == {s[i] : i \in 1..Len(s)}
Min(x, y) == IF x < y THEN x ELSE y

\* CrawlMode
HTML == "html"
BROWSER == "browser"
AUTO == "auto"
CrawlMode == {HTML, BROWSER, AUTO}

\* ------------------------------------------------------------------------
\* Page markup, abstracted to what detector and extractor read from it
\*   top : selector of the best repeating container the detector finds
\*   n   : valid items SmartExtractor yields for container selector "sA"
\*   pag : pagination hint the detector finds
\*   bad : SmartDetector.analyze_page raises on this markup
\* ------------------------------------------------------------------------
NoPag == [type |-> "none", next_url |-> None]
Button(u) == [type |-> "button", next_url |-> u]
Hints == {NoPag, Button("a/2")}

Empty == [top |-> "none", n |-> 0, pag |-> NoPag, bad |-> FALSE]
Skeleton == [top |-> "sA", n |-> 0, pag |-> NoPag, bad |-> FALSE]
Broken == [top |-> "none", n |-> 0, pag |-> NoPag, bad |-> TRUE]
Listing(k, p) == [top |-> "sA", n |-> k, pag |-> p, bad |-> FALSE]
Listings == {Listing(k, p) : k \in 1..MaxItems, p \in Hints}
Markups == {Empty, Skeleton, Broken} \cup Listings
NoHtml == [top |-> "null", n |-> 0, pag |-> NoPag, bad |-> FALSE]

\* PatternSet cached per domain
NoPatterns == [top |-> "absent", pag |-> NoPag]

VARIABLES
    \* CrawlQueue
    queue, q_visited,
    \* ScaleHandler
    visited, running, checkpoint_callback, domain_delays,
    \* CrawlSession
    session_set, domains, pages_crawled, pages_total, items_extracted,
    errors, current_status,
    \* frame of the running crawl / crawl_multi_domain call
    pc, entry, mode, result_callback, max_pages_per_domain, domain_counts,
    url, items, next_url, actual_mode, sink_left,
    \* RobotsChecker
    follow, robots_cache,
    \* DualModeEngine and its collaborators
    browser_crawler, domain_modes, auto_switches, pattern_cache,
    attempt, html, html_browser,
    \* observation of the run (history)
    runs, fetch_calls, dequeued, robots_blocked, cap_skipped, fetched_hosts,
    since_req,
    min_gap, browser_ok, delivered,
    \* the URL whose fetch_and_extract was in flight when stop() was called
    \* (history; None after resume() and at the start of a call)
    stopped_for,
    \* whether the clock is observed
    clocked,
    \* pagination detection on one page: the page's anchors, the hint
    \* SmartDetector finds, the next URL the engine derives
    pg_stage, pg_page, pg_pagination, pg_next,
    \* extraction of the items of one page: the list in work
    it_stage, it_items,
    \* resume: the checkpoint handed to resume_from_checkpoint and how the
    \* call ended
    rs_stage, checkpoint_data,
    \* one CrawlQueue under add and pop: the last call, the URLs in the
    \* order add appended them, the URLs pop returned, appends per URL
    q_op, first_adds, popped, appends,
    \* TaskRunner: the row of the job, the queue as save_progress last saw
    \* it, the queue load_progress returned for it
    job_row, saved, loaded,
    \* AsyncCrawler: the permits of its semaphore and, per task calling
    \* fetch, its position, the loop variable, the answer to the last
    \* attempt, the attempts that failed, the requests issued, the result
    sem, f_pc, f_attempt, f_last, f_failed, f_tries, f_ret,
    \* and the random delays the task has slept through in the call
    f_delays,
    \* the pages one engine extracts in a session: per host, the detector's
    \* output on the page of the first extraction that gave items, and the
    \* markup of the last page
    pt_first, pt_last,
    \* price normalisation: the price string, the text in work, the result
    pr_stage, pr_price, pr_text, pr_result,
    \* fetch_batch: the URL list, per URL the state of its fetch_one task,
    \* the permits of the batch semaphore, the list returned
    b_stage, b_urls, b_task, b_sem, b_ret

handlerVars == <<queue, q_visited, visited, running, checkpoint_callback,
                 domain_delays>>
sessionVars == <<session_set, domains, pages_crawled, pages_total,
                 items_extracted, errors, current_status>>
frameVars == <<pc, entry, mode, result_callback, max_pages_per_domain,
               domain_counts, url, items, next_url, actual_mode, sink_left>>
robotsVars == <<follow, robots_cache>>
engineVars == <<browser_crawler, domain_modes, auto_switches, pattern_cache,
                attempt, html, html_browser>>
obsVars == <<runs, fetch_calls, dequeued, robots_blocked, cap_skipped,
             fetched_hosts, since_req, min_gap, browser_ok, delivered,
             stopped_for>>
coreVars == <<handlerVars, sessionVars, frameVars, robotsVars, engineVars,
              obsVars, clocked>>
\* coreVars without the two fields of the CrawlQueue
nonQueueVars == <<visited, running, checkpoint_callback, domain_delays,
                  sessionVars, frameVars, robotsVars, engineVars, obsVars,
                  clocked>>
pagerVars == <<pg_stage, pg_page, pg_pagination, pg_next>>
itemVars == <<it_stage, it_items>>
resumeVars == <<rs_stage, checkpoint_data>>
queueVars == <<q_op, first_adds, popped, appends>>
runnerVars == <<job_row, saved, loaded>>
fetchVars == <<sem, f_pc, f_attempt, f_last, f_failed, f_tries, f_ret,
               f_delays>>
patVars == <<pt_first, pt_last>>
priceVars == <<pr_stage, pr_price, pr_text, pr_result>>
batchVars == <<b_stage, b_urls, b_task, b_sem, b_ret>>
\* coreVars without the pattern cache of the extractor
nonPatternVars == <<handlerVars, sessionVars, frameVars, robotsVars,
                    browser_crawler, domain_modes, auto_switches, attempt,
                    html, html_browser, obsVars, clocked>>
sideVars == <<pagerVars, itemVars, resumeVars, queueVars, runnerVars,
              fetchVars, patVars, priceVars, batchVars>>
vars == <<coreVars, sideVars>>

\* one fewer than the hosts of the site, so that the seeds can exceed it
max_domains == Cardinality(Hosts) - 1

\* ------------------------------------------------------------------------
\* CrawlQueue
\* ------------------------------------------------------------------------
\* a queue that does not remember what it was offered
add_no_dedup(q, v, u) ==
    IF u = None THEN <<q, v>> ELSE <<Append(q, u), v \cup {u}>>

\* CrawlQueue.add(url): the pair <<queue, visited>> after the call
add(q, v, u) ==
    IF u = None THEN <<q, v>>
    ELSE IF u \notin v THEN <<Append(q, u), v \cup {u}>>
    ELSE <<q, v>>

RECURSIVE add_all(_, _, _)
add_all(q, v, us) ==
    IF us = <<>> THEN <<q, v>>
    ELSE LET r == add(q, v, Head(us))
         IN add_all(r[1], r[2], Tail(us))

\* CrawlQueue.has_next
has_next(q) == Len(q) > 0

\* ------------------------------------------------------------------------
\* Elapsing time
\* ------------------------------------------------------------------------
Adv(f, d) == IF clocked THEN [h \in Hosts |-> Min(f[h] + d, DomainDelay)]
             ELSE f


\* the clock is read: the age of h's entry is 0
Stamp(f, h) == IF clocked THEN [f EXCEPT ![h] = 0] ELSE f

\* a request issued to host h that lasts dur ticks: min_gap keeps the
\* smallest distance seen between two adjacent requests to one host
Request(h, dur) ==
    /\ min_gap' = Min(min_gap, since_req[h])
    /\ since_req' = Adv(Stamp(since_req, h), dur)
    /\ domain_delays' = Adv(domain_delays, dur)

\* ------------------------------------------------------------------------
\* RobotsChecker
\* ------------------------------------------------------------------------
\* the parser RobotsChecker.load caches for an origin, by the answer to the
\* robots.txt request:
\*   "rules"   status 200, body "User-agent: * / Disallow: /private/" parsed
\*   "allow"   the request raised: ["User-agent: *", "Allow: /"] parsed
\*   "unread"  status other than 200: a RobotFileParser that parsed nothing
RobotsAnswers == {"200", "non200", "exception"}
load(answer) ==
    CASE answer = "200" -> "rules"
      [] answer = "exception" -> "allow"
      [] answer = "non200" -> "unread"

\* a robots gate that calls every URL allowed
can_fetch_open(parser, u) == TRUE

\* RobotFileParser.can_fetch("*", url) on the cached parser: a parser that
\* never parsed anything (last_checked = 0) allows no URL
can_fetch(parser, u) ==
    CASE parser = "rules" -> u # "a/private/x"
      [] parser = "allow" -> TRUE
      [] parser = "unread" -> FALSE

\* ------------------------------------------------------------------------
\* SmartDetector / SmartExtractor
\* ------------------------------------------------------------------------
\* SmartDetector.analyze_page(html, url), for markup it does not raise on
analyze_page(m) == [top |-> m.top, pag |-> m.pag]

\* SmartExtractor._extract_with_patterns: the items selected by the
\* PatternSet's top container selector in this markup
_extract_with_patterns(m, patterns) ==
    IF patterns.top = "sA" THEN m.n ELSE 0

\* SmartExtractor.extract_auto(html, url) on pattern cache pc0
extract_auto(pc0, d, m) ==
    IF pc0[d] # NoPatterns
    THEN [raised |-> FALSE, cache |-> pc0,
          items |-> _extract_with_patterns(m, pc0[d])]
    ELSE IF m.bad
    THEN [raised |-> TRUE, cache |-> pc0, items |-> 0]
    ELSE [raised |-> FALSE,
          cache |-> [pc0 EXCEPT ![d] = analyze_page(m)],
          items |-> _extract_with_patterns(m, analyze_page(m))]

\* DualModeEngine._detect_next_page(html, base_url) on pattern cache pc0
_detect_next_page(pc0, d, m) ==
    LET redetect == pc0[d] = NoPatterns \/ pc0[d].pag = NoPag
        patterns == IF redetect THEN analyze_page(m) ELSE pc0[d]
    IN IF redetect /\ m.bad
       THEN [raised |-> TRUE, cache |-> pc0, next_url |-> None]
       ELSE [raised |-> FALSE,
             cache |-> IF redetect THEN [pc0 EXCEPT ![d] = patterns] ELSE pc0,
             next_url |-> IF patterns.pag.type = "button"
                          THEN patterns.pag.next_url ELSE None]

\* ------------------------------------------------------------------------
\* Pagination: SmartDetector._detect_pagination and the next URL
\* DualModeEngine._detect_next_page derives from its hint.  URLs are
\* sequences of characters; "{page}" is the placeholder of a template.
\* ------------------------------------------------------------------------
Digits == <<"0", "1", "2", "3", "4", "5", "6", "7", "8", "9">>

\* str(n)
RECURSIVE str(_)
str(n) == IF n < 10 THEN <<Digits[n + 1]>>
          ELSE str(n \div 10) \o <<Digits[(n % 10) + 1]>>

PLACE == "{page}"
Prefix == <<"/", "c", "?", "p", "=">>
\* the href of the anchor of page n
href(n) == Prefix \o str(n)
NextHref == <<"/", "n">>

\* what a page offers: the href of an anchor with a pagination keyword
\* (<<>>: none), the page numbers of its numeric anchors in document
\* order, whether it has a load-more element
AnchorLists == UNION {[1..k -> 1..MaxPageNo] : k \in 0..MaxAnchors}
Pages == [next_anchor : {<<>>, NextHref}, numbers : AnchorLists,
          load_more : BOOLEAN]
NoPage == [next_anchor |-> <<>>, numbers |-> <<>>, load_more |-> FALSE]

\* an optional URL
NoUrl == [some |-> FALSE, val |-> <<>>]
Some(u) == [some |-> TRUE, val |-> u]

\* the loop of SmartDetector._detect_url_pattern from index i on
RECURSIVE scan(_, _, _)
scan(url1, url2, i) ==
    IF i > Min(Len(url1), Len(url2)) THEN <<>>
    ELSE IF url1[i] = url2[i] THEN <<url1[i]>> \o scan(url1, url2, i + 1)
    ELSE <<PLACE>>

\* SmartDetector._detect_url_pattern(urls)
_detect_url_pattern(urls) ==
    IF Len(urls) < 2 THEN <<>> ELSE scan(urls[1], urls[2], 1)

\* SmartDetector._find_page_numbers: "found" is FALSE for None
_find_page_numbers(numbers) ==
    IF Len(numbers) < 2
    THEN [found |-> FALSE, pattern |-> <<>>, current |-> 0]
    ELSE LET sorted == SortSeq(numbers, LAMBDA x, y : x < y)
             hrefs == [i \in 1..Len(sorted) |-> href(sorted[i])]
         IN [found |-> TRUE, pattern |-> _detect_url_pattern(hrefs),
             current |-> sorted[1]]

\* SmartDetector._detect_pagination: type "none" is None
NoPagination ==
    [type |-> "none", next_url |-> <<>>, pattern |-> <<>>, current |-> 0]
_detect_pagination(page) ==
    LET links == _find_page_numbers(page.numbers) IN
    IF page.next_anchor # <<>>
    THEN [NoPagination EXCEPT !.type = "button",
                              !.next_url = page.next_anchor]
    ELSE IF links.found
    THEN [NoPagination EXCEPT !.type = "links",
                              !.pattern = links.pattern,
                              !.current = links.current]
    ELSE IF page.load_more
    THEN [NoPagination EXCEPT !.type = "load_more"]
    ELSE NoPagination

\* pattern.replace("{page}", s)
RECURSIVE replace(_, _)
replace(pattern, s) ==
    IF pattern = <<>> THEN <<>>
    ELSE (IF Head(pattern) = PLACE THEN s ELSE <<Head(pattern)>>)
         \o replace(Tail(pattern), s)

has_place(pattern) == \E i \in 1..Len(pattern) : pattern[i] = PLACE

\* an engine that substitutes the current page number
next_page_url_current(pagination) ==
    IF pagination.type = "button" THEN Some(pagination.next_url)
    ELSE IF pagination.type = "links" /\ has_place(pagination.pattern)
    THEN Some(replace(pagination.pattern, str(pagination.current)))
    ELSE NoUrl

\* DualModeEngine._detect_next_page, from "pagination = ..." on
next_page_url(pagination) ==
    IF pagination.type = "none" THEN NoUrl
    ELSE IF pagination.type = "button" THEN Some(pagination.next_url)
    ELSE IF pagination.type = "links"
    THEN IF pagination.pattern # <<>> /\ has_place(pagination.pattern)
         THEN Some(replace(pagination.pattern, str(pagination.current + 1)))
         ELSE NoUrl
    ELSE NoUrl

PagerOff ==
    /\ pg_stage = "off" /\ pg_page = NoPage
    /\ pg_pagination = NoPagination /\ pg_next = NoUrl

\* analyze_page finds the pagination hint of the page
PagerDetect ==
    /\ pg_stage = "page"
    /\ pg_pagination' = _detect_pagination(pg_page)
    /\ pg_stage' = "hint"
    /\ UNCHANGED <<coreVars, fetchVars, patVars, priceVars, batchVars,
                   itemVars, resumeVars, queueVars, runnerVars,
                   pg_page, pg_next>>

\* _detect_next_page derives the next URL from the hint
PagerNext ==
    /\ pg_stage = "hint"
    /\ pg_next' = next_page_url(pg_pagination)
    /\ pg_stage' = "next"
    /\ UNCHANGED <<coreVars, fetchVars, patVars, priceVars, batchVars,
                   itemVars, resumeVars, queueVars, runnerVars,
                   pg_page, pg_pagination>>

\* ------------------------------------------------------------------------
\* Items: SmartExtractor._extract_with_patterns, _is_valid_item and
\* _clean_items on the raw items of one page.  A URL is a sequence of
\* tokens, scheme first; <<>> and "" read None or empty.
\* ------------------------------------------------------------------------
Titles == {"", "T", "T  x"}
Links == {<<>>, <<"http://", "a/x">>, <<"/", "x">>, <<"javascript:", "v">>}
Images == {<<>>, <<"https://", "a/i">>, <<"data:", "i">>}
Prices == {"", "$5"}
RawItems == [title : Titles, link : Links, image : Images, price : Prices]
RawLists == UNION {[1..k -> RawItems] : k \in 0..MaxElements}

\* SmartExtractor._is_valid_item
_is_valid_item(item) ==
    /\ item.title # ""
    /\ item.link # <<>> \/ item.image # <<>> \/ item.price # ""

\* SmartExtractor._clean_text: runs of whitespace become one blank
_clean_text(text) == IF text = "T  x" THEN "T x" ELSE text

\* SmartExtractor._is_valid_url
_is_valid_url(u) ==
    /\ u # <<>>
    /\ Head(u) \in {"http://", "https://", "//", "/"}

\* the body of the loop of _clean_items up to the deduplication
clean_item(item) ==
    [title |-> _clean_text(item.title),
     link |-> IF _is_valid_url(item.link) THEN item.link ELSE <<>>,
     image |-> IF _is_valid_url(item.image) THEN item.image ELSE <<>>,
     price |-> _clean_text(item.price)]

\* the loop of _extract_with_patterns: the valid items, in order
RECURSIVE valid_items(_)
valid_items(raw) ==
    IF raw = <<>> THEN <<>>
    ELSE (IF _is_valid_item(Head(raw)) THEN <<Head(raw)>> ELSE <<>>)
         \o valid_items(Tail(raw))

\* SmartExtractor._clean_items, with the "seen" set of (title, link) keys
RECURSIVE clean_from(_, _)
clean_from(list, seen) ==
    IF list = <<>> THEN <<>>
    ELSE LET c == clean_item(Head(list))
             key == <<c.title, c.link>>
         IN IF key \in seen THEN clean_from(Tail(list), seen)
            ELSE <<c>> \o clean_from(Tail(list), seen \cup {key})

_clean_items(list) == clean_from(list, {})

ItemsOff == it_stage = "off" /\ it_items = <<>>

\* _extract_with_patterns keeps the valid items
ItemsExtract ==
    /\ it_stage = "raw"
    /\ it_items' = valid_items(it_items)
    /\ it_stage' = "valid"
    /\ UNCHANGED <<coreVars, fetchVars, patVars, priceVars, batchVars,
                   pagerVars, resumeVars, queueVars, runnerVars>>

\* extract_auto cleans them and returns them for the result sink
ItemsClean ==
    /\ it_stage = "valid"
    /\ it_items' = _clean_items(it_items)
    /\ it_stage' = "clean"
    /\ UNCHANGED <<coreVars, fetchVars, patVars, priceVars, batchVars,
                   pagerVars, resumeVars, queueVars, runnerVars>>

\* ------------------------------------------------------------------------
\* Resume: ScaleHandler.resume_from_checkpoint on a new handler, given the
\* dictionary _checkpoint builds for the checkpoint callback
\* ------------------------------------------------------------------------
\* the pending URLs of a queue: no URL twice
PendingLists ==
    {q \in UNION {[1..k -> URLs] : k \in 0..2} :
        \A i, j \in DOMAIN q : i # j => q[i] # q[j]}

\* checkpoint_data of _checkpoint: "queue", "visited", "pages_crawled",
\* "items_extracted", "domains"
CheckpointData ==
    [queue : PendingLists, visited : SUBSET URLs,
     pages_crawled : 0..ConfigMaxPages, items_extracted : 0..MaxItems,
     domains : SUBSET Hosts]

NoCheckpoint ==
    [queue |-> <<>>, visited |-> {}, pages_crawled |-> 0,
     items_extracted |-> 0, domains |-> {}]

ResumeOff == rs_stage = "off" /\ checkpoint_data = NoCheckpoint

\* resume_from_checkpoint(checkpoint_data): its first statement calls
\* queue.from_dict, which CrawlQueue does not define; the AttributeError
\* leaves the handler before visited and the session are restored
resume_from_checkpoint ==
    /\ rs_stage = "data"
    /\ rs_stage' = "raised"
    /\ UNCHANGED <<coreVars, fetchVars, patVars, priceVars, batchVars,
                   pagerVars, itemVars, queueVars, runnerVars,
                   checkpoint_data>>

\* ------------------------------------------------------------------------
\* One CrawlQueue under add and pop, and TaskRunner.save_progress /
\* load_progress on it
\* ------------------------------------------------------------------------
QueueURLs == {"a/1", "a/2", "b/1"}

NoOp == [name |-> "none", url |-> None, ret |-> None]

\* a pop that takes the newest URL
pop_right(q) ==
    IF q # <<>> THEN <<q[Len(q)], SubSeq(q, 1, Len(q) - 1)>> ELSE <<None, q>>

\* CrawlQueue.pop(): the pair <<returned value, queue>> after the call
pop(q) == IF q # <<>> THEN <<Head(q), Tail(q)>> ELSE <<None, q>>

QueueOff ==
    /\ q_op = NoOp /\ first_adds = <<>> /\ popped = <<>>
    /\ appends = [u \in QueueURLs |-> 0]

\* queue.add(url), url any URL or empty
QueueAdd ==
    \E u \in QueueURLs \cup {None} :
       LET r == add(queue, q_visited, u)
           appended == Len(r[1]) > Len(queue)
       IN /\ queue' = r[1] /\ q_visited' = r[2]
          /\ q_op' = [name |-> "add", url |-> u, ret |-> None]
          /\ first_adds' = IF appended /\ u \notin Range(first_adds)
                            THEN Append(first_adds, u) ELSE first_adds
          /\ appends' = IF appended THEN [appends EXCEPT ![u] = @ + 1]
                         ELSE appends
          /\ UNCHANGED <<nonQueueVars, fetchVars, patVars, priceVars, batchVars,
                         pagerVars, itemVars, resumeVars,
                         runnerVars, popped>>

\* queue.pop()
QueuePop ==
    LET r == pop(queue)
    IN /\ queue' = r[2]
       /\ q_op' = [name |-> "pop", url |-> None, ret |-> r[1]]
       /\ popped' = IF r[1] # None THEN Append(popped, r[1]) ELSE popped
       /\ UNCHANGED <<nonQueueVars, fetchVars, patVars, priceVars, batchVars,
                         pagerVars, itemVars, resumeVars,
                      runnerVars, q_visited, first_adds, appends>>

\* json.dumps of a list of strings: the text as a sequence of tokens
RECURSIVE dumps_from(_)
dumps_from(list) ==
    IF list = <<>> THEN <<"]">>
    ELSE <<",", Head(list)>> \o dumps_from(Tail(list))

dumps(list) ==
    IF list = <<>> THEN <<"[", "]">>
    ELSE <<"[", Head(list)>> \o dumps_from(Tail(list))

\* json.loads of such a text
loads(text) == [i \in 1..((Len(text) - 1) \div 2) |-> text[2 * i]]

\* list(a_set): the elements in any order
Orders(S) == {f \in [1..Cardinality(S) -> S] : Range(f) = S}

\* a deque filled from the newest end
restore_queue_left(list) == [i \in 1..Len(list) |-> list[Len(list) + 1 - i]]

\* "q.queue.extend(list)" on the empty deque of a new CrawlQueue
restore_queue(list) == <<>> \o list

NoRow == [exists |-> FALSE, queue_data |-> <<>>, visited_data |-> <<>>]
NoQueue == [some |-> FALSE, queue |-> <<>>, visited |-> {}]

RunnerOff == job_row = NoRow /\ saved = NoQueue /\ loaded = NoQueue

\* TaskRunner.create_job: the row with "[]" for queue_data and visited_data
create_job ==
    /\ ~job_row.exists
    /\ job_row' = [exists |-> TRUE, queue_data |-> dumps(<<>>),
                   visited_data |-> dumps(<<>>)]
    /\ UNCHANGED <<coreVars, fetchVars, patVars, priceVars, batchVars,
                   pagerVars, itemVars, resumeVars, queueVars,
                   saved, loaded>>

\* TaskRunner.save_progress(job_id, queue): an UPDATE of the row, which
\* changes nothing when there is no such row.  loaded is the queue
\* load_progress returned for the progress last saved.
save_progress ==
    /\ IF job_row.exists
       THEN /\ \E visited_list \in Orders(q_visited) :
                  job_row' = [exists |-> TRUE,
                              queue_data |-> dumps(queue),
                              visited_data |-> dumps(visited_list)]
            /\ saved' = [some |-> TRUE, queue |-> queue,
                         visited |-> q_visited]
            /\ loaded' = NoQueue
       ELSE UNCHANGED <<job_row, saved, loaded>>
    /\ UNCHANGED <<coreVars, fetchVars, patVars, priceVars, batchVars,
                   pagerVars, itemVars, resumeVars, queueVars>>

\* TaskRunner.load_progress(job_id): None without a row, else a new
\* CrawlQueue filled from the row
load_progress ==
    /\ loaded' =
         IF ~job_row.exists THEN NoQueue
         ELSE [some |-> TRUE,
               queue |-> restore_queue(loads(job_row.queue_data)),
               visited |-> Range(loads(job_row.visited_data))]
    /\ UNCHANGED <<coreVars, fetchVars, patVars, priceVars, batchVars,
                   pagerVars, itemVars, resumeVars, queueVars,
                   job_row, saved>>

\* ------------------------------------------------------------------------
\* AsyncCrawler.fetch, called by several tasks at once on one crawler
\* ------------------------------------------------------------------------
Tasks == 1..MaxTasks

\* what one attempt can meet: status 200, another status, asyncio
\* TimeoutError, any other exception
Outcomes == {"200", "status", "timeout", "error"}

\* the positions of a task that are inside "async with self.sem"
InSection == {"loop", "request", "ok_delay", "retry_delay"}

\* a loop that makes one attempt more
has_more_extra(a) == a <= Retry

\* "for attempt in range(1, self.retry + 1)": there is a next attempt
has_more(a) == a < Retry

\* a semaphore that lets every task in
can_acquire_always(s) == TRUE

\* asyncio.Semaphore.acquire proceeds while the value is positive
can_acquire(s) == s > 0

\* the crawler after construction, no task in fetch
FetchOff ==
    /\ sem = max_concurrency
    /\ f_pc = [t \in Tasks |-> "idle"]
    /\ f_attempt = [t \in Tasks |-> 0]
    /\ f_last = [t \in Tasks |-> "none"]
    /\ f_failed = [t \in Tasks |-> 0]
    /\ f_tries = [t \in Tasks |-> 0]
    /\ f_ret = [t \in Tasks |-> "pending"]
    /\ f_delays = [t \in Tasks |-> 0]

fetchRest == <<coreVars, pagerVars, itemVars, resumeVars, queueVars,
               runnerVars, patVars, priceVars, batchVars>>

\* a delay that is not slept
random_delay_skipped(n) == n

\* AsyncCrawler.random_delay: one sleep of uniform(delay_min, delay_max),
\* counted
random_delay(n) == n + 1

\* a task calls fetch(url) and reaches "async with self.sem"
FetchEnter(t) ==
    /\ f_pc[t] = "idle"
    /\ f_pc' = [f_pc EXCEPT ![t] = "acquire"]
    /\ UNCHANGED <<fetchRest, sem, f_attempt, f_last, f_failed, f_tries,
                   f_ret, f_delays>>

\* the semaphore lets the task in
FetchAcquire(t) ==
    /\ f_pc[t] = "acquire"
    /\ can_acquire(sem)
    /\ sem' = sem - 1
    /\ f_pc' = [f_pc EXCEPT ![t] = "loop"]
    /\ UNCHANGED <<fetchRest, f_attempt, f_last, f_failed, f_tries, f_ret,
                   f_delays>>

\* head of the for loop: the next attempt, or "return None" after the last
FetchLoop(t) ==
    /\ f_pc[t] = "loop"
    /\ IF has_more(f_attempt[t])
       THEN /\ f_attempt' = [f_attempt EXCEPT ![t] = @ + 1]
            /\ f_pc' = [f_pc EXCEPT ![t] = "request"]
            /\ UNCHANGED <<sem, f_ret>>
       ELSE /\ f_ret' = [f_ret EXCEPT ![t] = None]
            /\ f_pc' = [f_pc EXCEPT ![t] = "returned"]
            /\ sem' = sem + 1
            /\ UNCHANGED f_attempt
    /\ UNCHANGED <<fetchRest, f_last, f_failed, f_tries, f_delays>>

\* one attempt: the proxy lookup and the GET, answered or raising
FetchAttempt(t) ==
    /\ f_pc[t] = "request"
    /\ \E outcome \in Outcomes :
          /\ f_last' = [f_last EXCEPT ![t] = outcome]
          /\ f_tries' = [f_tries EXCEPT ![t] = @ + 1]
          /\ IF outcome = "200"
             THEN /\ f_pc' = [f_pc EXCEPT ![t] = "ok_delay"]
                  /\ UNCHANGED f_failed
             ELSE /\ f_pc' = [f_pc EXCEPT ![t] = "retry_delay"]
                  /\ f_failed' = [f_failed EXCEPT ![t] = @ + 1]
    /\ UNCHANGED <<fetchRest, sem, f_attempt, f_ret, f_delays>>

\* random_delay after status 200, then "return html"
FetchReturn(t) ==
    /\ f_pc[t] = "ok_delay"
    /\ f_ret' = [f_ret EXCEPT ![t] = "body"]
    /\ f_pc' = [f_pc EXCEPT ![t] = "returned"]
    /\ sem' = sem + 1
    /\ f_delays' = [f_delays EXCEPT ![t] = random_delay(@)]
    /\ UNCHANGED <<fetchRest, f_attempt, f_last, f_failed, f_tries>>

\* random_delay after a failed attempt, then back to the loop head
FetchRetryDelay(t) ==
    /\ f_pc[t] = "retry_delay"
    /\ f_pc' = [f_pc EXCEPT ![t] = "loop"]
    /\ f_last' = [f_last EXCEPT ![t] = "none"]
    /\ f_delays' = [f_delays EXCEPT ![t] = random_delay(@)]
    /\ UNCHANGED <<fetchRest, sem, f_attempt, f_failed, f_tries, f_ret>>

\* the task is cancelled at one of its awaits: CancelledError is no
\* Exception, it leaves fetch through "async with", which releases the
\* permit the task holds; the frame of the call is gone
FetchCancel(t) ==
    /\ f_pc[t] \in {"acquire", "request", "ok_delay", "retry_delay"}
    /\ sem' = IF f_pc[t] = "acquire" THEN sem ELSE sem + 1
    /\ f_pc' = [f_pc EXCEPT ![t] = "cancelled"]
    /\ f_attempt' = [f_attempt EXCEPT ![t] = 0]
    /\ f_last' = [f_last EXCEPT ![t] = "none"]
    /\ f_failed' = [f_failed EXCEPT ![t] = 0]
    /\ f_tries' = [f_tries EXCEPT ![t] = 0]
    /\ f_delays' = [f_delays EXCEPT ![t] = 0]
    /\ UNCHANGED <<fetchRest, f_ret>>

\* the steps of a call that is under way
FetchStep(t) ==
    \/ FetchAcquire(t)
    \/ FetchLoop(t)
    \/ FetchAttempt(t)
    \/ FetchReturn(t)
    \/ FetchRetryDelay(t)

\* ------------------------------------------------------------------------
\* The pattern cache over the pages of a session: steps 2 and 3 of
\* DualModeEngine.fetch_and_extract on one page after the other
\* ------------------------------------------------------------------------
PatternsOff ==
    /\ pt_first = [h \in Hosts |-> NoPatterns]
    /\ pt_last = [h \in Hosts |-> NoHtml]

\* extract_auto, then _detect_next_page, on a page of host h with markup
\* m; an exception of the detector leaves the cache as it is
EnginePage(h, m) ==
    LET e == extract_auto(pattern_cache, h, m)
        p == _detect_next_page(e.cache, h, m)
    IN /\ pattern_cache' = IF e.raised THEN e.cache ELSE p.cache
       /\ pt_first' = IF pt_first[h] = NoPatterns /\ ~e.raised
                          /\ e.items > 0
                       THEN [pt_first EXCEPT ![h] = analyze_page(m)]
                       ELSE pt_first
       /\ pt_last' = [pt_last EXCEPT ![h] = m]
       /\ UNCHANGED <<nonPatternVars, pagerVars, itemVars, resumeVars,
                      queueVars, runnerVars, fetchVars, priceVars,
                      batchVars>>

\* ------------------------------------------------------------------------
\* SmartExtractor._normalize_price.  A string is a sequence of characters;
\* a float is its decimal expansion: the whole part and the digits after
\* the point, without trailing zeros.
\* ------------------------------------------------------------------------
DigitChars == Range(Digits)
PriceChars == {"$", "1", "2", ",", "."}
PriceStrings == UNION {[1..k -> PriceChars] : k \in 0..MaxPriceLen}

DigitVal(c) == CHOOSE d \in 0..9 : Digits[d + 1] = c

RECURSIVE Num(_)
Num(ds) ==
    IF ds = <<>> THEN 0
    ELSE 10 * Num(SubSeq(ds, 1, Len(ds) - 1)) + DigitVal(ds[Len(ds)])

RECURSIVE strip_zeros(_)
strip_zeros(ds) ==
    IF ds # <<>> /\ ds[Len(ds)] = "0"
    THEN strip_zeros(SubSeq(ds, 1, Len(ds) - 1)) ELSE ds

\* the float with whole part ws and fraction digits fs
Value(ws, fs) == [ok |-> TRUE, whole |-> Num(ws), frac |-> strip_zeros(fs)]

\* None
NoFloat == [ok |-> FALSE, whole |-> 0, frac |-> <<>>]

count_char(t, c) == Cardinality({i \in 1..Len(t) : t[i] = c})
rindex(t, c) == CHOOSE i \in 1..Len(t) :
                   t[i] = c /\ \A j \in (i + 1)..Len(t) : t[j] # c
replace_char(t, a, b) == [i \in 1..Len(t) |-> IF t[i] = a THEN b ELSE t[i]]
remove_char(t, a) == SelectSeq(t, LAMBDA c : c # a)

\* re.sub(r'[^\d.,]', '', price)
strip(price) == SelectSeq(price, LAMBDA c : c \in DigitChars \cup {".", ","})

\* a tail of one or two digits taken for the decimals
is_decimal_tail_short(tail) == Len(tail) <= 2

\* "len(parts[-1]) == 2"
is_decimal_tail(tail) == Len(tail) = 2

\* the separator rules on the stripped text
separators(t) ==
    IF count_char(t, ",") > 0 /\ count_char(t, ".") > 0
    THEN IF rindex(t, ",") > rindex(t, ".")
         THEN replace_char(remove_char(t, "."), ",", ".")
         ELSE remove_char(t, ",")
    ELSE IF count_char(t, ",") > 0
    THEN IF count_char(t, ",") > 1
         THEN remove_char(t, ",")
         ELSE IF is_decimal_tail(SubSeq(t, rindex(t, ",") + 1, Len(t)))
         THEN replace_char(t, ",", ".")
         ELSE remove_char(t, ",")
    ELSE t

\* float(number_part) of a text of digits and points, None for ValueError
float(t) ==
    IF count_char(t, ".") > 1 \/ \A i \in 1..Len(t) : t[i] = "."
    THEN NoFloat
    ELSE LET k == IF count_char(t, ".") = 1 THEN rindex(t, ".")
                  ELSE Len(t) + 1
         IN Value(SubSeq(t, 1, k - 1), SubSeq(t, k + 1, Len(t)))

_normalize_price(price) ==
    IF price = <<>> THEN NoFloat ELSE float(separators(strip(price)))

PriceOff ==
    /\ pr_stage = "off" /\ pr_price = <<>> /\ pr_text = <<>>
    /\ pr_result = NoFloat

\* the currency symbols and the text are removed
PriceStrip ==
    /\ pr_stage = "price"
    /\ pr_text' = strip(pr_price)
    /\ pr_stage' = "stripped"
    /\ UNCHANGED <<coreVars, pagerVars, itemVars, resumeVars, queueVars,
                   runnerVars, fetchVars, patVars, batchVars, pr_price,
                   pr_result>>

\* the separators are settled and the number is read
PriceFloat ==
    /\ pr_stage = "stripped"
    /\ pr_text' = IF pr_price = <<>> THEN <<>> ELSE separators(pr_text)
    /\ pr_result' = _normalize_price(pr_price)
    /\ pr_stage' = "done"
    /\ UNCHANGED <<coreVars, pagerVars, itemVars, resumeVars, queueVars,
                   runnerVars, fetchVars, patVars, batchVars, pr_price>>

\* ------------------------------------------------------------------------
\* DualModeEngine.fetch_batch(urls, mode, max_concurrent)
\* ------------------------------------------------------------------------
BatchLists == UNION {[1..k -> QueueURLs] : k \in 0..MaxBatch}

\* how fetch_one can end for a URL: fetch returned markup, fetch returned
\* None, fetch raised
BatchOutcomes == {"html", "null", "raised"}

BatchOff ==
    /\ b_stage = "off" /\ b_urls = <<>> /\ b_task = <<>>
    /\ b_sem = max_concurrency /\ b_ret = <<>>

batchRest == <<coreVars, pagerVars, itemVars, resumeVars, queueVars,
               runnerVars, fetchVars, patVars, priceVars>>

\* the entry of asyncio.gather for the task of URL number i: the tuple
\* fetch_one returned, or the exception it raised
gathered(i) ==
    IF b_task[i] = "raised"
    THEN [exception |-> TRUE, url |-> b_urls[i], html |-> None]
    ELSE [exception |-> FALSE, url |-> b_urls[i],
          html |-> IF b_task[i] = "html" THEN "body" ELSE None]

\* "Filter out exceptions": the results that are no Exception, in order
RECURSIVE valid_results(_)
valid_results(results) ==
    IF results = <<>> THEN <<>>
    ELSE IF Head(results).exception
         THEN valid_results(Tail(results))
         ELSE <<[url |-> Head(results).url, html |-> Head(results).html]>>
              \o valid_results(Tail(results))

\* the call: one fetch_one task per URL, a semaphore of max_concurrent
fetch_batch(urls) ==
    /\ b_stage = "off"
    /\ b_stage' = "gather"
    /\ b_urls' = urls
    /\ b_task' = [i \in 1..Len(urls) |-> "waiting"]
    /\ UNCHANGED <<batchRest, b_sem, b_ret>>

\* "async with semaphore" lets the task of URL number i in
BatchAcquire(i) ==
    /\ b_stage = "gather" /\ b_task[i] = "waiting"
    /\ can_acquire(b_sem)
    /\ b_sem' = b_sem - 1
    /\ b_task' = [b_task EXCEPT ![i] = "fetching"]
    /\ UNCHANGED <<batchRest, b_stage, b_urls, b_ret>>

\* self.fetch(url, mode) of the task ends and the permit is released
BatchFetched(i) ==
    /\ b_stage = "gather" /\ b_task[i] = "fetching"
    /\ \E o \in BatchOutcomes : b_task' = [b_task EXCEPT ![i] = o]
    /\ b_sem' = b_sem + 1
    /\ UNCHANGED <<batchRest, b_stage, b_urls, b_ret>>

\* gather has every result; the exceptions are filtered out
BatchReturn ==
    /\ b_stage = "gather"
    /\ \A i \in 1..Len(b_urls) : b_task[i] \in BatchOutcomes
    /\ b_ret' = valid_results([i \in 1..Len(b_urls) |-> gathered(i)])
    /\ b_stage' = "returned"
    /\ UNCHANGED <<batchRest, b_urls, b_task, b_sem>>

\* the parts of the model a specification does not exercise
SideOff ==
    /\ PagerOff /\ ItemsOff /\ ResumeOff /\ QueueOff /\ RunnerOff
    /\ FetchOff /\ PatternsOff /\ PriceOff /\ BatchOff

\* ------------------------------------------------------------------------
\* Initial state: the objects after construction
\* ------------------------------------------------------------------------
\* a session that carries the page counter of the previous call over
CrawlSession_carried(total) ==
    [pages_crawled |-> pages_crawled, pages_total |-> total,
     items_extracted |-> 0, errors |-> 0, current_status |-> "running"]

\* CrawlSession(...) as crawl and crawl_multi_domain construct it
CrawlSession(total) ==
    [pages_crawled |-> 0, pages_total |-> total, items_extracted |-> 0,
     errors |-> 0, current_status |-> "running"]

Constructed ==
    /\ queue = <<>> /\ q_visited = {}
    /\ visited = {} /\ running = TRUE
    /\ checkpoint_callback \in BOOLEAN
    /\ domain_delays = [h \in Hosts |-> DomainDelay]
    /\ session_set = FALSE /\ domains = {}
    /\ pages_crawled = 0 /\ pages_total = 0 /\ items_extracted = 0
    /\ errors = 0 /\ current_status = "none"
    /\ pc = "idle" /\ entry = "none" /\ mode = AUTO
    /\ result_callback = FALSE /\ max_pages_per_domain = 0
    /\ domain_counts = [h \in Hosts |-> 0]
    /\ url = None /\ items = 0 /\ next_url = None /\ actual_mode = HTML
    /\ sink_left = 0
    /\ follow \in BOOLEAN
    /\ robots_cache = [h \in Hosts |-> "absent"]
    /\ browser_crawler \in BOOLEAN
    /\ domain_modes = [h \in Hosts |-> "absent"]
    /\ auto_switches = 0
    /\ pattern_cache = [h \in Hosts |-> NoPatterns]
    /\ attempt = 0 /\ html = NoHtml /\ html_browser = NoHtml
    /\ runs = 0
    /\ fetch_calls = [u \in URLs |-> 0]
    /\ dequeued = {} /\ robots_blocked = {} /\ cap_skipped = {}
    /\ fetched_hosts = {}
    /\ since_req = [h \in Hosts |-> DomainDelay]
    /\ min_gap = DomainDelay
    /\ browser_ok = {}
    /\ delivered = 0
    /\ stopped_for = None

\* a freshly constructed handler, the clock not observed
Init ==
    /\ Constructed
    /\ clocked = FALSE
    /\ SideOff

\* ------------------------------------------------------------------------
\* ScaleHandler.crawl / crawl_multi_domain: session set-up
\* ------------------------------------------------------------------------
Idle == pc \in {"idle", "done", "raised"}

StartFrame(e, start_urls, m, cb, total) ==
    LET s == CrawlSession(total)
        r == add_all(queue, q_visited, start_urls)
    IN /\ Idle
       /\ runs' = runs + 1
       /\ entry' = e /\ mode' = m /\ result_callback' = cb
       /\ session_set' = TRUE
       /\ pages_crawled' = s.pages_crawled
       /\ pages_total' = s.pages_total
       /\ items_extracted' = s.items_extracted
       /\ errors' = s.errors
       /\ current_status' = s.current_status
       /\ queue' = r[1] /\ q_visited' = r[2]
       /\ domains' = {_get_domain(u) : u \in Range(start_urls)}
       /\ domain_counts' = [h \in Hosts |-> 0]
       /\ url' = None /\ items' = 0 /\ next_url' = None
       /\ actual_mode' = HTML /\ sink_left' = 0
       /\ attempt' = 0 /\ html' = NoHtml /\ html_browser' = NoHtml
       /\ dequeued' = {} /\ robots_blocked' = {} /\ cap_skipped' = {}
       /\ fetched_hosts' = {}
       /\ delivered' = 0
       /\ stopped_for' = None
       /\ pc' = "loop"
       /\ UNCHANGED <<visited, running, checkpoint_callback, domain_delays,
                      robotsVars, browser_crawler, domain_modes,
                      auto_switches, pattern_cache, fetch_calls, since_req,
                      min_gap, browser_ok, clocked, sideVars>>

\* crawl(start_urls, mode, max_pages, result_callback); max_pages = 0 reads
\* "None"
crawl(start_urls, m, max_pages, cb) ==
    /\ StartFrame("crawl", start_urls, m, cb,
                  IF max_pages # 0 THEN max_pages ELSE ConfigMaxPages)
    /\ max_pages_per_domain' = max_pages_per_domain

\* crawl_multi_domain(start_urls, mode, max_pages_per_domain, result_callback)
crawl_multi_domain(start_urls, m, per_domain, cb) ==
    /\ StartFrame("multi", start_urls, m, cb, Len(start_urls) * per_domain)
    /\ max_pages_per_domain' = per_domain


\* variables neither a step of a running crawl nor stop / pause / resume
\* changes
callVars == <<checkpoint_callback, follow, browser_crawler, entry, mode,
              result_callback, max_pages_per_domain, runs, session_set,
              pages_total, domains, clocked, sideVars>>
\* variables no step of a running crawl changes
cfgVars == <<callVars, stopped_for>>
timeVars == <<domain_delays, since_req, min_gap>>
\* locals of one loop iteration
localVars == <<url, items, next_url, actual_mode, sink_left, attempt, html,
               html_browser>>

\* the locals are dead when an iteration ends
EndIteration ==
    /\ url' = None /\ items' = 0 /\ next_url' = None /\ actual_mode' = HTML
    /\ sink_left' = 0 /\ attempt' = 0 /\ html' = NoHtml
    /\ html_browser' = NoHtml
    /\ pc' = "loop"

\* the per-URL "except Exception" of the crawl loops
Caught == /\ errors' = errors + 1
          /\ EndIteration

\* ------------------------------------------------------------------------
\* ScaleHandler.crawl: loop head, up to the depth lookup
\* ------------------------------------------------------------------------
\* CrawlQueue defines no get_depth: the lookup raises AttributeError outside
\* the try block and crawl() ends with it
CrawlLoop ==
    /\ pc = "loop" /\ entry = "crawl"
    /\ IF ~(running /\ has_next(queue))
          \/ pages_crawled >= pages_total
          \/ Cardinality(domains) > max_domains
       THEN /\ pc' = "final"
            /\ UNCHANGED <<queue, url, dequeued>>
       ELSE /\ queue' = Tail(queue)
            /\ dequeued' = dequeued \cup {Head(queue)}
            /\ IF Head(queue) \in visited
               THEN pc' = "loop" /\ UNCHANGED url
               ELSE pc' = "raised" /\ url' = Head(queue)
    /\ UNCHANGED <<cfgVars, timeVars, q_visited, visited, running,
                   pages_crawled, items_extracted, errors, current_status,
                   domain_counts, items, next_url, actual_mode, sink_left,
                   attempt, html, html_browser, robots_cache, domain_modes,
                   auto_switches,
                   pattern_cache, fetch_calls, robots_blocked, fetched_hosts,
                   browser_ok, delivered,
                   cap_skipped>>

\* the final checkpoint of crawl(): with a checkpoint callback set,
\* _checkpoint calls queue.to_dict(), which CrawlQueue does not define
FinalCheckpoint ==
    /\ pc = "final"
    /\ pc' = IF checkpoint_callback THEN "raised" ELSE "done"
    /\ UNCHANGED <<cfgVars, timeVars, localVars, queue, q_visited, visited,
                   running, pages_crawled, items_extracted, errors,
                   current_status, domain_counts, robots_cache, domain_modes,
                   auto_switches, pattern_cache, fetch_calls, dequeued,
                   robots_blocked, fetched_hosts, browser_ok, delivered,
                   cap_skipped>>

\* ------------------------------------------------------------------------
\* ScaleHandler.crawl_multi_domain: loop head, up to the per-domain cap
\* ------------------------------------------------------------------------
\* a cap test that lets the page at the cap through
at_cap_exceeded(count, cap) == count > cap

\* "domain_counts.get(domain, 0) >= max_pages_per_domain"
at_cap(count, cap) == count >= cap

MultiLoop ==
    /\ pc = "loop" /\ entry = "multi"
    /\ IF ~(running /\ has_next(queue))
       THEN /\ pc' = "done"
            /\ UNCHANGED <<queue, url, dequeued, cap_skipped>>
       ELSE LET u == Head(queue) IN
            /\ queue' = Tail(queue)
            /\ dequeued' = dequeued \cup {u}
            /\ IF u \in visited
               THEN pc' = "loop" /\ UNCHANGED <<url, cap_skipped>>
               ELSE IF at_cap(domain_counts[_get_domain(u)],
                              max_pages_per_domain)
               THEN /\ pc' = "loop" /\ cap_skipped' = cap_skipped \cup {u}
                    /\ UNCHANGED url
               ELSE pc' = "robots" /\ url' = u /\ UNCHANGED cap_skipped
    /\ UNCHANGED <<cfgVars, timeVars, q_visited, visited, running,
                   pages_crawled, items_extracted, errors, current_status,
                   domain_counts, items, next_url, actual_mode, sink_left,
                   attempt, html, html_browser, robots_cache, domain_modes,
                   auto_switches,
                   pattern_cache, fetch_calls, fetched_hosts, browser_ok,
                   delivered, robots_blocked>>

\* ------------------------------------------------------------------------
\* RobotsChecker.allowed(url), with the load of an origin not yet cached
\* ------------------------------------------------------------------------
RobotsAllowed ==
    /\ pc = "robots"
    /\ LET h == _get_domain(url) IN
       \E answer \in RobotsAnswers :
          LET parser == IF robots_cache[h] = "absent" THEN load(answer)
                        ELSE robots_cache[h]
              allowed == IF ~follow THEN TRUE ELSE can_fetch(parser, url)
          IN /\ robots_cache' = IF follow
                                THEN [robots_cache EXCEPT ![h] = parser]
                                ELSE robots_cache
             /\ IF allowed
                THEN pc' = "rate" /\ UNCHANGED <<robots_blocked, localVars>>
                ELSE EndIteration /\ robots_blocked' = robots_blocked \cup {url}
    /\ UNCHANGED <<cfgVars, timeVars, queue, q_visited, visited, running,
                   pages_crawled, items_extracted, errors, current_status,
                   domain_counts, domain_modes, auto_switches, pattern_cache,
                   fetch_calls, dequeued, fetched_hosts, browser_ok,
                   delivered,
                   cap_skipped>>

\* ------------------------------------------------------------------------
\* ScaleHandler._apply_rate_limit(url)
\* ------------------------------------------------------------------------
_apply_rate_limit ==
    /\ pc = "rate"
    /\ LET h == _get_domain(url)
           elapsed == domain_delays[h]
           wait_time == IF elapsed < DomainDelay THEN DomainDelay - elapsed
                        ELSE 0
       IN /\ domain_delays' = Stamp(Adv(domain_delays, wait_time), h)
          /\ since_req' = Adv(since_req, wait_time)
    /\ pc' = "fetch"
    /\ UNCHANGED <<cfgVars, localVars, min_gap, queue, q_visited, visited,
                   running, pages_crawled, items_extracted, errors,
                   current_status, domain_counts, robots_cache, domain_modes,
                   auto_switches, pattern_cache, fetch_calls, dequeued,
                   robots_blocked, fetched_hosts, browser_ok, delivered,
                   cap_skipped>>

\* ------------------------------------------------------------------------
\* DualModeEngine.fetch_and_extract(url, mode), step by step
\* ------------------------------------------------------------------------
\* a mode selection that does not consult the remembered modes
select_mode_html(m, d) == IF m = AUTO THEN HTML ELSE m

\* DualModeEngine.fetch: the mode the first fetch is made with
select_mode(m, d) ==
    IF m = AUTO
    THEN IF domain_modes[d] # "absent" THEN domain_modes[d] ELSE HTML
    ELSE m

\* the call of engine.fetch_and_extract and the mode selection of fetch
FetchCall ==
    /\ pc = "fetch"
    /\ fetch_calls' = [fetch_calls EXCEPT ![url] = @ + 1]
    /\ fetched_hosts' = fetched_hosts \cup {_get_domain(url)}
    /\ IF select_mode(mode, _get_domain(url)) = HTML
       THEN pc' = "html" /\ attempt' = 1
       ELSE pc' = "browser" /\ attempt' = 0
    /\ UNCHANGED <<cfgVars, timeVars, queue, q_visited, visited, running,
                   pages_crawled, items_extracted, errors, current_status,
                   domain_counts, url, items, next_url, actual_mode,
                   sink_left, html, html_browser, robots_cache, domain_modes,
                   auto_switches, pattern_cache, dequeued, robots_blocked,
                   browser_ok, delivered,
                   cap_skipped>>

\* what fetch_and_extract returns when fetch gave no HTML
ReturnEmpty(m) ==
    /\ items' = 0 /\ next_url' = None /\ actual_mode' = m
    /\ html' = NoHtml /\ html_browser' = NoHtml /\ attempt' = 0
    /\ pc' = "record"

\* one attempt of AsyncCrawler.fetch and the random_delay after it
HtmlAttempt ==
    /\ pc = "html"
    /\ \E dur \in 0..MaxDur, d \in DelayMin..(DelayMax - 1),
          resp \in Markups \cup {NoHtml} :
          /\ Request(_get_domain(url), dur + d)
          /\ IF resp # NoHtml
             THEN /\ html' = resp /\ actual_mode' = HTML /\ attempt' = 0
                  /\ pc' = "extract"
                  /\ UNCHANGED <<items, next_url, html_browser>>
             ELSE IF attempt < Retry
             THEN /\ attempt' = attempt + 1
                  /\ UNCHANGED <<html, html_browser, actual_mode, pc, items,
                                 next_url>>
             ELSE IF browser_crawler
             THEN /\ pc' = "fallback" /\ attempt' = 0
                  /\ UNCHANGED <<html, html_browser, actual_mode, items,
                                 next_url>>
             ELSE ReturnEmpty(HTML)
    /\ UNCHANGED <<cfgVars, queue, q_visited, visited, running,
                   pages_crawled, items_extracted, errors, current_status,
                   domain_counts, url, sink_left, robots_cache, domain_modes,
                   auto_switches, pattern_cache, fetch_calls, dequeued,
                   robots_blocked, fetched_hosts, browser_ok, delivered,
                   cap_skipped>>

\* an engine that remembers BROWSER whenever it fell back to the browser
fetch_remembers_any(fallback, resp) == fallback

\* fetch remembers BROWSER for the domain when the browser fetch that
\* followed a failed HTML fetch returned markup
fetch_remembers(fallback, resp) == fallback /\ resp # NoHtml

\* _fetch_with_mode(url, BROWSER): as the selected mode (pc = "browser") or
\* as the fallback of fetch after the HTML fetch failed (pc = "fallback")
BrowserFetch ==
    /\ pc \in {"browser", "fallback"}
    /\ LET h == _get_domain(url) IN
       IF ~browser_crawler
       THEN /\ ReturnEmpty(BROWSER)
            /\ UNCHANGED <<timeVars, domain_modes, auto_switches,
                           browser_ok>>
       ELSE \E dur \in 0..MaxDur, resp \in Markups \cup {NoHtml} :
            /\ Request(h, dur)
            /\ browser_ok' = IF resp # NoHtml THEN browser_ok \cup {h}
                             ELSE browser_ok
            /\ IF fetch_remembers(pc = "fallback", resp)
               THEN /\ domain_modes' = [domain_modes EXCEPT ![h] = BROWSER]
                    /\ auto_switches' = auto_switches + 1
               ELSE UNCHANGED <<domain_modes, auto_switches>>
            /\ IF resp # NoHtml
               THEN /\ html' = resp /\ actual_mode' = BROWSER
                    /\ pc' = "extract"
                    /\ UNCHANGED <<items, next_url, attempt, html_browser>>
               ELSE ReturnEmpty(BROWSER)
    /\ UNCHANGED <<cfgVars, queue, q_visited, visited, running,
                   pages_crawled, items_extracted, errors, current_status,
                   domain_counts, url, sink_left, robots_cache,
                   pattern_cache, fetch_calls, dequeued, robots_blocked,
                   fetched_hosts, delivered,
                   cap_skipped>>

\* steps 2 and 3 of fetch_and_extract: extract_auto, then _detect_next_page
Extract ==
    /\ pc = "extract"
    /\ LET d == _get_domain(url)
           e == extract_auto(pattern_cache, d, html)
           p == _detect_next_page(e.cache, d, html)
       IN IF e.raised \/ p.raised
          THEN /\ pattern_cache' = e.cache
               /\ Caught
          ELSE /\ pattern_cache' = p.cache
               /\ items' = e.items
               /\ next_url' = p.next_url
               /\ html' = NoHtml
               /\ pc' = IF e.items = 0 /\ actual_mode = HTML
                           /\ browser_crawler
                        THEN "refetch" ELSE "record"
               /\ UNCHANGED <<errors, url, actual_mode, sink_left, attempt,
                              html_browser>>
    /\ UNCHANGED <<cfgVars, timeVars, queue, q_visited, visited, running,
                   pages_crawled, items_extracted, current_status,
                   domain_counts, robots_cache, domain_modes, auto_switches,
                   fetch_calls, dequeued, robots_blocked, fetched_hosts,
                   browser_ok, delivered,
                   cap_skipped>>

\* fetch_and_extract remembers BROWSER for the domain when the extraction
\* from the browser markup gave items
extract_remembers(n) == n > 0

\* step 4 of fetch_and_extract: no items in HTML mode, browser available
BrowserRefetch ==
    /\ pc = "refetch"
    /\ \E dur \in 0..MaxDur, resp \in Markups \cup {NoHtml} :
       LET d == _get_domain(url)
           e == extract_auto(pattern_cache, d, resp)
           p == _detect_next_page(e.cache, d, resp)
           got == resp # NoHtml /\ ~e.raised /\ extract_remembers(e.items)
       IN /\ Request(d, dur)
          /\ browser_ok' = IF resp # NoHtml THEN browser_ok \cup {d}
                           ELSE browser_ok
          /\ IF got
             THEN /\ domain_modes' = [domain_modes EXCEPT ![d] = BROWSER]
                  /\ auto_switches' = auto_switches + 1
             ELSE UNCHANGED <<domain_modes, auto_switches>>
          /\ IF resp = NoHtml
             THEN /\ pc' = "record"
                  /\ UNCHANGED <<localVars, errors, pattern_cache>>
             ELSE IF e.raised \/ (got /\ p.raised)
             THEN /\ Caught
                  /\ pattern_cache' = e.cache
             ELSE /\ items' = e.items
                  /\ pattern_cache' = IF got THEN p.cache ELSE e.cache
                  /\ next_url' = IF got THEN p.next_url ELSE next_url
                  /\ actual_mode' = IF got THEN BROWSER ELSE actual_mode
                  /\ html_browser' = resp
                  /\ pc' = "record"
                  /\ UNCHANGED <<errors, url, sink_left, attempt, html>>
    /\ UNCHANGED <<cfgVars, queue, q_visited, visited, running,
                   pages_crawled, items_extracted, current_status,
                   domain_counts, robots_cache, fetch_calls, dequeued,
                   robots_blocked, fetched_hosts, delivered,
                   cap_skipped>>

\* ------------------------------------------------------------------------
\* The crawl loops after fetch_and_extract returned
\* ------------------------------------------------------------------------
\* visited.add(url); pages_crawled += 1; [domain_counts[domain] += 1;]
\* items_extracted += len(items)
Record ==
    /\ pc = "record"
    /\ visited' = visited \cup {url}
    /\ pages_crawled' = pages_crawled + 1
    /\ domain_counts' = IF entry = "multi"
                        THEN [domain_counts EXCEPT ![_get_domain(url)] = @ + 1]
                        ELSE domain_counts
    /\ items_extracted' = items_extracted + items
    /\ IF items > 0 /\ result_callback
       THEN pc' = "sink" /\ sink_left' = items
       ELSE pc' = "next" /\ sink_left' = 0
    /\ items' = 0 /\ actual_mode' = HTML /\ html_browser' = NoHtml
    /\ UNCHANGED <<cfgVars, timeVars, queue, q_visited, running, errors,
                   current_status, url, next_url, attempt, html,
                   robots_cache, domain_modes, auto_switches, pattern_cache,
                   fetch_calls, dequeued, robots_blocked, fetched_hosts,
                   browser_ok, delivered,
                   cap_skipped>>

\* one "await result_callback(item)"; the caller's sink may raise
Sink ==
    /\ pc = "sink"
    /\ \E ok \in BOOLEAN :
          IF ok
          THEN /\ delivered' = delivered + 1
               /\ sink_left' = sink_left - 1
               /\ pc' = IF sink_left = 1 THEN "next" ELSE "sink"
               /\ UNCHANGED <<errors, url, items, next_url, actual_mode,
                              attempt, html, html_browser>>
          ELSE /\ Caught
               /\ UNCHANGED delivered
    /\ UNCHANGED <<cfgVars, timeVars, queue, q_visited, visited, running,
                   pages_crawled, items_extracted, current_status,
                   domain_counts, robots_cache, domain_modes, auto_switches,
                   pattern_cache, fetch_calls, dequeued, robots_blocked,
                   fetched_hosts, browser_ok,
                   cap_skipped>>

\* the rest of the try block: enqueue of the next page, progress report,
\* periodic checkpoint.  CrawlQueue.add takes no "parent" argument, so
\* queue.add(next_url, parent=url) raises TypeError; _checkpoint with a
\* callback set raises AttributeError on queue.to_dict().  Both are caught
\* by the per-URL except.
AfterPage ==
    /\ pc = "next"
    /\ LET enqueue == /\ next_url # None
                      /\ next_url \notin visited
                      /\ entry = "multi" =>
                           domain_counts[_get_domain(next_url)]
                             < max_pages_per_domain
           checkpoint == pages_crawled % CheckpointInterval = 0
       IN IF enqueue \/ (checkpoint /\ checkpoint_callback)
          THEN Caught
          ELSE EndIteration /\ UNCHANGED errors
    /\ UNCHANGED <<cfgVars, timeVars, queue, q_visited, visited, running,
                   pages_crawled, items_extracted, current_status,
                   domain_counts, robots_cache, domain_modes, auto_switches,
                   pattern_cache, fetch_calls, dequeued, robots_blocked,
                   fetched_hosts, browser_ok, delivered,
                   cap_skipped>>

\* ------------------------------------------------------------------------
\* ScaleHandler.stop / pause / resume, callable between any two steps
\* ------------------------------------------------------------------------
\* the stages of an iteration in which fetch_and_extract is in flight
InFlight == {"html", "browser", "fallback", "extract", "refetch"}

Control(flag, status, for) ==
    /\ running' = flag
    /\ current_status' = IF session_set THEN status ELSE current_status
    /\ stopped_for' = for
    /\ UNCHANGED <<callVars, timeVars, localVars, queue, q_visited, visited,
                   pages_crawled, items_extracted, errors, pc,
                   domain_counts, robots_cache, domain_modes, auto_switches,
                   pattern_cache, fetch_calls, dequeued, robots_blocked,
                   fetched_hosts, browser_ok, delivered,
                   cap_skipped>>

stop == Control(FALSE, "stopped",
               IF stopped_for = None /\ pc \in InFlight
               THEN url ELSE stopped_for)
pause == Control(FALSE, "paused", stopped_for)
resume == Control(TRUE, "running", None)

\* ------------------------------------------------------------------------
\* Specification: one crawl call, of either entry point, on a fresh handler
\* ------------------------------------------------------------------------
FirstCall ==
    /\ runs = 0
    /\ \/ \E su \in SeedLists, m \in CrawlMode, mp \in 0..MaxPagesArg,
             cb \in BOOLEAN : crawl(su, m, mp, cb)
       \/ \E su \in SeedLists, m \in CrawlMode, pd \in 1..MaxPerDomain,
             cb \in BOOLEAN : crawl_multi_domain(su, m, pd, cb)

Next ==
    \/ FirstCall
    \/ CrawlLoop
    \/ FinalCheckpoint
    \/ MultiLoop
    \/ RobotsAllowed
    \/ _apply_rate_limit
    \/ FetchCall
    \/ HtmlAttempt
    \/ BrowserFetch
    \/ Extract
    \/ BrowserRefetch
    \/ Record
    \/ Sink
    \/ AfterPage
    \/ stop
    \/ pause
    \/ resume

Spec == Init /\ [][Next]_vars

\* ------------------------------------------------------------------------
\* Specification with the clock observed: one crawl_multi_domain call on a
\* fresh handler without robots checking, checkpointing and result sink
\* ------------------------------------------------------------------------
InitTimed ==
    /\ Constructed
    /\ clocked = TRUE
    /\ ~follow /\ ~checkpoint_callback
    /\ SideOff

TimedCall ==
    /\ runs = 0
    /\ \E su \in SeedLists, m \in CrawlMode, pd \in 1..MaxPerDomain :
          crawl_multi_domain(su, m, pd, FALSE)

NextTimed ==
    \/ TimedCall
    \/ MultiLoop
    \/ RobotsAllowed
    \/ _apply_rate_limit
    \/ FetchCall
    \/ HtmlAttempt
    \/ BrowserFetch
    \/ Extract
    \/ BrowserRefetch
    \/ Record
    \/ AfterPage

SpecTimed == InitTimed /\ [][NextTimed]_vars

\* ------------------------------------------------------------------------
\* Specification of a reused handler: up to MaxRuns crawl calls, one after
\* the other, on one handler in HTML mode without browser, robots checking,
\* checkpointing and result sink
\* ------------------------------------------------------------------------
InitReuse ==
    /\ Constructed
    /\ clocked = FALSE
    /\ ~follow /\ ~checkpoint_callback /\ ~browser_crawler
    /\ SideOff

\* the seed lists of a reused handler: a later call may bring one seed
ReuseSeeds == SeedLists \cup { <<"a/2">> }

ReuseCall ==
    /\ runs < MaxRuns
    /\ \/ \E su \in ReuseSeeds, mp \in 0..MaxPagesArg :
             crawl(su, HTML, mp, FALSE)
       \/ \E su \in ReuseSeeds, pd \in 1..MaxPerDomain :
             crawl_multi_domain(su, HTML, pd, FALSE)

NextReuse ==
    \/ ReuseCall
    \/ CrawlLoop
    \/ FinalCheckpoint
    \/ MultiLoop
    \/ RobotsAllowed
    \/ _apply_rate_limit
    \/ FetchCall
    \/ HtmlAttempt
    \/ Extract
    \/ Record
    \/ AfterPage

SpecReuse == InitReuse /\ [][NextReuse]_vars

\* ------------------------------------------------------------------------
\* Specification of pagination detection on one page
\* ------------------------------------------------------------------------
\* the handler as constructed, untouched by this specification
Untouched ==
    /\ Constructed
    /\ clocked = FALSE
    /\ ~follow /\ ~checkpoint_callback /\ ~browser_crawler

InitPager ==
    /\ Untouched
    /\ pg_stage = "page" /\ pg_page \in Pages
    /\ pg_pagination = NoPagination /\ pg_next = NoUrl
    /\ ItemsOff /\ ResumeOff /\ QueueOff /\ RunnerOff /\ FetchOff
    /\ PatternsOff /\ PriceOff /\ BatchOff

NextPager == PagerDetect \/ PagerNext

SpecPager == InitPager /\ [][NextPager]_vars

\* ------------------------------------------------------------------------
\* Specification of the extraction of the items of one page
\* ------------------------------------------------------------------------
InitItems ==
    /\ Untouched
    /\ it_stage = "raw" /\ it_items \in RawLists
    /\ PagerOff /\ ResumeOff /\ QueueOff /\ RunnerOff /\ FetchOff
    /\ PatternsOff /\ PriceOff /\ BatchOff

NextItems == ItemsExtract \/ ItemsClean

SpecItems == InitItems /\ [][NextItems]_vars

\* ------------------------------------------------------------------------
\* Specification of a resume: a new handler is handed a checkpoint
\* ------------------------------------------------------------------------
InitResume ==
    /\ Untouched
    /\ rs_stage = "data" /\ checkpoint_data \in CheckpointData
    /\ PagerOff /\ ItemsOff /\ QueueOff /\ RunnerOff /\ FetchOff
    /\ PatternsOff /\ PriceOff /\ BatchOff

NextResume == resume_from_checkpoint

SpecResume == InitResume /\ [][NextResume]_vars

\* ------------------------------------------------------------------------
\* Specification of one CrawlQueue: any sequence of add and pop, with the
\* progress of one job saved and loaded at any point
\* ------------------------------------------------------------------------
InitQueue == Untouched /\ SideOff

NextQueue ==
    \/ QueueAdd
    \/ QueuePop
    \/ create_job
    \/ save_progress
    \/ load_progress

SpecQueue == InitQueue /\ [][NextQueue]_vars

\* ------------------------------------------------------------------------
\* Specification of the HTTP fetcher: MaxTasks tasks call fetch on one
\* AsyncCrawler, each once, in any interleaving
\* ------------------------------------------------------------------------
InitFetch == Untouched /\ SideOff

NextFetch ==
    \E t \in Tasks :
       \/ FetchEnter(t)
       \/ FetchAcquire(t)
       \/ FetchLoop(t)
       \/ FetchAttempt(t)
       \/ FetchReturn(t)
       \/ FetchRetryDelay(t)
       \/ FetchCancel(t)

SpecFetch == InitFetch /\ [][NextFetch]_vars

\* while some call can take a step the event loop runs one; requests end
\* by their timeout and delays by their sleep
SpecFetchFair == SpecFetch /\ WF_vars(\E t \in Tasks : FetchStep(t))

\* ------------------------------------------------------------------------
\* Specification of the pattern cache: one engine extracts pages of the
\* hosts, of any markup, one after the other
\* ------------------------------------------------------------------------
InitPatterns == Untouched /\ SideOff

NextPatterns == \E h \in Hosts, m \in Markups : EnginePage(h, m)

SpecPatterns == InitPatterns /\ [][NextPatterns]_vars

\* ------------------------------------------------------------------------
\* Specification of the price normalisation of one price string
\* ------------------------------------------------------------------------
InitPrice ==
    /\ Untouched
    /\ pr_stage = "price" /\ pr_price \in PriceStrings
    /\ pr_text = <<>> /\ pr_result = NoFloat
    /\ PagerOff /\ ItemsOff /\ ResumeOff /\ QueueOff /\ RunnerOff
    /\ FetchOff /\ PatternsOff /\ BatchOff

NextPrice == PriceStrip \/ PriceFloat

SpecPrice == InitPrice /\ [][NextPrice]_vars

\* ------------------------------------------------------------------------
\* Specification of one fetch_batch call
\* ------------------------------------------------------------------------
InitBatch == Untouched /\ SideOff

NextBatch ==
    \/ \E urls \in BatchLists : fetch_batch(urls)
    \/ \E i \in 1..Len(b_urls) : BatchAcquire(i)
    \/ \E i \in 1..Len(b_urls) : BatchFetched(i)
    \/ BatchReturn

SpecBatch == InitBatch /\ [][NextBatch]_vars

\* ------------------------------------------------------------------------
\* Properties
\* ------------------------------------------------------------------------
Returned == pc \in {"done", "raised"}

\* C1: within one crawl session no URL is handed to
\* engine.fetch_and_extract more than once, a URL whose processing raised
\* included
C1_FetchedAtMostOnce == \A u \in URLs : fetch_calls[u] <= 1

\* a seed given twice whose only fetch raised: the call returned, the URL
\* was handed to the engine once and never entered the visited set
C1_Witness ==
    /\ entry = "multi" /\ pc = "done" /\ errors > 0
    /\ \E u \in URLs : fetch_calls[u] = 1 /\ u \notin visited

\* C2: any two adjacent fetches to one host, retries and browser re-fetches
\* included, are at least domain_delay apart
C2_AdjacentFetchesSpaced == min_gap >= DomainDelay

\* C3: during crawl(max_pages = N), N >= 1, the session's pages_crawled
\* never exceeds N (pages_total holds N, or the configured max_pages when
\* the argument is None)
C3_PageLimit == entry = "crawl" => pages_crawled <= pages_total

\* crawl(max_pages = 1) called on a handler whose earlier call recorded
\* pages, and dequeuing a URL
C3_Witness ==
    /\ entry = "crawl" /\ runs = 2 /\ pages_total = 1
    /\ visited # {} /\ dequeued # {}

\* pages of host h in the visited set
crawled_on(h) == Cardinality({u \in visited : _get_domain(u) = h})

\* C4: during crawl_multi_domain no host has more than
\* max_pages_per_domain pages crawled; a dequeued URL whose host is at the
\* cap is skipped without a fetch; and a next-page URL whose host is at the
\* cap is not enqueued
C4_PerDomainCap ==
    /\ [](entry = "multi" =>
           /\ \A h \in Hosts : /\ domain_counts[h] <= max_pages_per_domain
                                /\ crawled_on(h) <= max_pages_per_domain
           /\ \A u \in cap_skipped : fetch_calls[u] = 0 /\ u \notin visited)
    /\ [][(/\ entry = "multi" /\ pc = "next" /\ next_url # None
           /\ domain_counts[_get_domain(next_url)] >= max_pages_per_domain)
          => queue' = queue]_vars

\* a call that returned after it crawled a host up to the cap and skipped
\* a further URL of that host
C4_Witness ==
    /\ entry = "multi" /\ pc = "done"
    /\ \E u \in cap_skipped :
          domain_counts[_get_domain(u)] = max_pages_per_domain

\* C5: after any crawl run the number of distinct hosts that were fetched
\* is at most max_domains
C5_DomainLimit == Returned => Cardinality(fetched_hosts) <= max_domains

\* C6: every URL dequeued by crawl is in the visited set when crawl
\* completes, or a robots, limit or depth decision was taken for it
C6_DequeuedAccounted ==
    (entry = "crawl" /\ Returned) =>
        \A u \in dequeued : u \in visited \/ u \in robots_blocked \cup cap_skipped

\* C7: with robots following enabled, a dequeued URL that robots.txt
\* disallows is skipped without effect (no engine call, not visited) and
\* a dequeued URL it allows is fetched
C7_RobotsSkip ==
    (entry = "crawl" /\ follow /\ Returned) =>
        \A u \in dequeued :
            IF u \in robots_blocked
            THEN fetch_calls[u] = 0 /\ u \notin visited
            ELSE fetch_calls[u] >= 1

\* C8: with robots following enabled, an origin whose robots.txt request
\* raised or answered with a status other than 200 has a permissive
\* default cached: allowed(url) is true for every URL of the origin, so
\* a URL is only ever blocked by rules read from a 200 answer
C8_PermissiveDefault ==
    follow =>
        /\ \A u \in robots_blocked : robots_cache[_get_domain(u)] = "rules"
        /\ \A u \in URLs :
              robots_cache[_get_domain(u)] \in {"allow", "unread"} =>
                  can_fetch(robots_cache[_get_domain(u)], u)

\* C9: when the HTML fetch of a URL succeeded with zero items and the
\* browser markup received by the re-fetch holds a repeating listing,
\* fetch_and_extract returns the items of the browser markup, records
\* BROWSER for the host and increments auto_switches by exactly 1
C9_JsListing ==
    [][(pc = "refetch" /\ html_browser' \in Listings) =>
          /\ items' = html_browser'.n
          /\ actual_mode' = BROWSER
          /\ domain_modes'[_get_domain(url)] = BROWSER
          /\ auto_switches' = auto_switches + 1]_vars

\* C10: ModeMemory starts empty, never holds HTML, and an entry is written
\* for a host only in the step that observed a browser success for it:
\* browser markup in the fallback of fetch, or items extracted from the
\* browser markup in fetch_and_extract
C10_ModeMemory ==
    /\ \A h \in Hosts : domain_modes[h] = "absent"
    /\ [](\A h \in Hosts : domain_modes[h] \in {"absent", BROWSER})
    /\ [][\A h \in Hosts :
            domain_modes'[h] # domain_modes[h] =>
               /\ h = _get_domain(url)
               /\ domain_modes'[h] = BROWSER
               /\ \/ pc = "fallback" /\ html' # NoHtml
                  \/ /\ pc = "refetch" /\ html_browser' # NoHtml
                     /\ items' > 0]_vars

\* the engine remembered BROWSER for a host after a browser success
C10_Witness ==
    \E h \in Hosts : /\ domain_modes[h] = BROWSER /\ h \in browser_ok
                      /\ auto_switches > 0

\* C11: detected pagination is followed.  After a page was recorded, its
\* own next link, when it is not visited, not known to the queue and its
\* host is under the cap, is the URL appended to the queue; and a crawl
\* call that returned with no stop, error, robots block or limit
\* intervening fetched every URL it dequeued
C11_FollowsPagination ==
    /\ [][(/\ pc = "next" /\ next_url # None
           /\ next_url \notin visited /\ next_url \notin q_visited
           /\ entry = "multi" =>
                 domain_counts[_get_domain(next_url)] < max_pages_per_domain)
          => queue' = Append(queue, next_url)]_vars
    /\ []((/\ entry = "crawl" /\ Returned /\ running /\ errors = 0
           /\ robots_blocked = {})
          => \A u \in dequeued : fetch_calls[u] >= 1)

\* C12: the next URL follows the variant of the pagination hint: button ->
\* the hint's next_url; links with a {page} template -> the template with
\* current + 1 substituted; load_more or no hint -> no next URL.  Numeric
\* anchors 1, 2, 3 give the template <prefix>{page}, current 1 and the
\* href of page 2 as next URL
C12_NextFollowsHint ==
    pg_stage = "next" =>
        /\ pg_pagination.type = "button" =>
              pg_next = Some(pg_pagination.next_url)
        /\ (pg_pagination.type = "links" /\ has_place(pg_pagination.pattern))
              => pg_next = Some(replace(pg_pagination.pattern,
                                        str(pg_pagination.current + 1)))
        /\ pg_pagination.type \in {"load_more", "none"} => pg_next = NoUrl
        /\ (pg_page.next_anchor = <<>> /\ pg_page.numbers = <<1, 2, 3>>) =>
              /\ pg_pagination.type = "links"
              /\ pg_pagination.pattern = Prefix \o <<PLACE>>
              /\ pg_pagination.current = 1
              /\ pg_next = Some(href(2))

\* the next URL derived for a page with the numeric anchors 1, 2, 3
C12_Witness ==
    /\ pg_stage = "next"
    /\ pg_page.next_anchor = <<>> /\ pg_page.numbers = <<1, 2, 3>>
    /\ pg_next = Some(href(2))

\* C13: every item returned for the result sink, in the form in which it
\* is delivered (after cleaning and URL validation), has a non-empty title
\* and at least one non-empty field among link, image and price
C13_DeliveredItemsValid ==
    it_stage = "clean" =>
        \A i \in 1..Len(it_items) :
            /\ it_items[i].title # ""
            /\ \/ it_items[i].link # <<>>
               \/ it_items[i].image # <<>>
               \/ it_items[i].price # ""

\* C14: a handler that was handed a checkpoint with resume_from_checkpoint
\* continues from the checkpoint: it holds the checkpoint's visited set, its
\* pending URLs and its page and item counters, which is what the same
\* final visited set and delivered items as in an uninterrupted run need
C14_ResumeRestores ==
    rs_stage \notin {"off", "data"} =>
        /\ rs_stage = "resumed"
        /\ visited = checkpoint_data.visited
        /\ queue = checkpoint_data.queue
        /\ session_set
        /\ pages_crawled = checkpoint_data.pages_crawled
        /\ items_extracted = checkpoint_data.items_extracted

\* C15: the queue load_progress returns for the progress save_progress
\* stored has the pending URLs of the saved queue in the same order and
\* its visited set, so that add and pop give the same on both
C15_QueueRoundTrip ==
    (loaded.some /\ saved.some) =>
        /\ loaded.queue = saved.queue
        /\ loaded.visited = saved.visited
        /\ pop(loaded.queue) = pop(saved.queue)
        /\ \A u \in QueueURLs \cup {None} :
              add(loaded.queue, loaded.visited, u)
                = add(saved.queue, saved.visited, u)

\* a queue with two pending URLs and a popped one went through the store
C15_Witness ==
    /\ loaded.some /\ saved.some
    /\ Len(saved.queue) >= 2
    /\ saved.visited # Range(saved.queue)

\* C16: under add and pop a URL is appended to the queue at most once, an
\* add of a URL of the visited set changes nothing, and the visited set
\* only grows
C16_AddIdempotent ==
    /\ [](\A u \in QueueURLs : appends[u] <= 1)
    /\ [][(q_op'.name = "add" /\ q_op'.url \in q_visited)
            => UNCHANGED <<queue, q_visited>>]_vars
    /\ [][q_visited \subseteq q_visited']_vars

\* a URL was added, popped and added again
C16_Witness ==
    /\ q_op.name = "add" /\ q_op.url \in Range(popped)
    /\ queue = <<>>

\* C17: pop returns the URLs in the order of their first successful add,
\* and a pop on the empty queue returns None and leaves the queue as it is
C17_PopFifo ==
    /\ [](first_adds = popped \o queue)
    /\ [][(q_op'.name = "pop" /\ queue = <<>> /\ q_op' # q_op)
            => (q_op'.ret = None /\ UNCHANGED <<queue, q_visited>>)]_vars

\* adds and pops interleaved: two URLs popped, one added after the first
\* pop; and a pop on the empty queue
C17_Witness ==
    /\ Len(popped) >= 2 /\ Len(first_adds) = 3
    /\ q_op.name = "pop" /\ q_op.ret = None

\* C18: a call of fetch issues at most Retry requests and no request after
\* one answered with 200; it returns the body exactly after an attempt
\* answered with 200 and None exactly after Retry failed attempts; and
\* every call that was made ends: from some moment on none is under way
C18_FetchTerminates ==
    /\ [](\A t \in Tasks :
            /\ f_tries[t] <= Retry
            /\ f_tries[t] - f_failed[t] \in {0, 1}
            /\ f_tries[t] - f_failed[t] = 1 =>
                  /\ f_pc[t] \in {"ok_delay", "returned"}
                  /\ f_last[t] = "200"
            /\ f_pc[t] = "returned" =>
                  /\ f_ret[t] = "body" <=> f_tries[t] - f_failed[t] = 1
                  /\ f_ret[t] = None <=> f_failed[t] = Retry)
    /\ <>[](\A t \in Tasks : f_pc[t] \notin InSection \cup {"acquire"})

\* one call returned None after Retry failures, another returned the body
\* of its second attempt
C18_Witness ==
    \E t1, t2 \in Tasks :
       /\ f_pc[t1] = "returned" /\ f_ret[t1] = None
       /\ f_failed[t1] = Retry
       /\ f_pc[t2] = "returned" /\ f_ret[t2] = "body"
       /\ f_tries[t2] = 2

\* C19: at most max_concurrency calls of fetch are inside the section the
\* semaphore guards, and every call that left it, by a return or by a
\* cancellation, gave its permit back
C19_SemaphoreBound ==
    LET inside == {t \in Tasks : f_pc[t] \in InSection}
    IN /\ Cardinality(inside) <= max_concurrency
       /\ sem = max_concurrency - Cardinality(inside)

\* the section is full and one more call waits for a permit
C19_Witness ==
    /\ Cardinality({t \in Tasks : f_pc[t] \in InSection}) = max_concurrency
    /\ \E t \in Tasks : f_pc[t] = "acquire"
    /\ sem = 0

\* C20: a session that stop() put in "stopped" stays there: whatever is
\* called next, pause() and resume() included, the status stays "stopped"
\* and the running flag false
C20_StoppedTerminal ==
    [][(session_set /\ current_status = "stopped")
         => (current_status' = "stopped" /\ ~running')]_vars

\* C21: when no stop or pause is ever requested and crawl returns because
\* its loop found the queue empty, the status of the session is "stopped"
C21_DepletionStops ==
    (entry = "crawl" /\ pc = "done" /\ queue = <<>>)
        => current_status = "stopped"

\* C22: in every state of a session, of crawl and of crawl_multi_domain,
\* pages_crawled is at most pages_total
C22_PagesWithinTotal == session_set => pages_crawled <= pages_total

\* C23: in every state of a session errors is at most pages_crawled: every
\* error is counted for a page that is counted as crawled
C23_ErrorsWithinPages == session_set => errors <= pages_crawled

\* C24: from the first extraction on a host that gave items, the cache
\* holds for that host the detector's output on the markup of that page,
\* and later pages of the host do not replace it
C24_PatternsStable ==
    \A h \in Hosts :
       pt_first[h] # NoPatterns => pattern_cache[h] = pt_first[h]

\* the digits of a text, and the number a text reads as when its
\* character at position k is the decimal point and every other separator
\* a thousands separator
digits_of(t) == SelectSeq(t, LAMBDA c : c \in DigitChars)
split_at(t, k) ==
    Value(digits_of(SubSeq(t, 1, k - 1)), digits_of(SubSeq(t, k + 1, Len(t))))

\* the result the separator rules name for a price string
rule_result(price) ==
    LET t == strip(price)
        commas == {i \in 1..Len(t) : t[i] = ","}
        points == {i \in 1..Len(t) : t[i] = "."}
        last(S) == CHOOSE i \in S : \A j \in S : j <= i
    IN IF digits_of(t) = <<>> THEN NoFloat
       ELSE IF commas # {} /\ points # {}
       THEN LET k == last(commas \cup points)
            IN IF Cardinality({i \in 1..Len(t) : t[i] = t[k]}) = 1
               THEN split_at(t, k) ELSE NoFloat
       ELSE IF Cardinality(commas) = 1 /\ Len(t) - last(commas) = 2
       THEN split_at(t, last(commas))
       ELSE Value(digits_of(t), <<>>)

\* C25: the normalised price of a string follows the separator rules:
\* with both separators the rightmost is the decimal point and the other
\* the thousands separator; with commas only, one comma with a two-digit
\* tail is the decimal point and any other comma a thousands separator; a
\* string without a readable number gives None.  "$1,234.56" and
\* "E1.234,56" give 1234.56, "12,99" gives 12.99, "1,234" gives 1234.0 and
\* "abc" gives None.
C25_PriceRules ==
    /\ (/\ pr_stage = "done"
        /\ \/ \E i \in 1..Len(pr_price) : pr_price[i] = ","
           \/ ~\E i \in 1..Len(pr_price) : pr_price[i] = ".")
          => pr_result = rule_result(pr_price)
    /\ _normalize_price(<<"$", "1", ",", "2", "3", "4", ".", "5", "6">>)
          = [ok |-> TRUE, whole |-> 1234, frac |-> <<"5", "6">>]
    /\ _normalize_price(<<"E", "1", ".", "2", "3", "4", ",", "5", "6">>)
          = [ok |-> TRUE, whole |-> 1234, frac |-> <<"5", "6">>]
    /\ _normalize_price(<<"1", "2", ",", "9", "9">>)
          = [ok |-> TRUE, whole |-> 12, frac |-> <<"9", "9">>]
    /\ _normalize_price(<<"1", ",", "2", "3", "4">>)
          = [ok |-> TRUE, whole |-> 1234, frac |-> <<>>]
    /\ _normalize_price(<<"a", "b", "c">>) = NoFloat

\* a price with both separators, the comma last, was read as a number
C25_Witness ==
    /\ pr_stage = "done" /\ pr_result.ok
    /\ pr_price = <<"1", ".", "2", ",", "1">>
    /\ pr_result.frac # <<>>

\* C26: fetch_and_extract is called for a URL only after, in this order,
\* the robots decision on that URL, which allowed it (robots following
\* off, or a cached parser that read an allowing answer for the URL), and
\* the rate wait of its host, which ended with the host's time stamp set
C26_FetchAfterGates ==
    /\ [][fetch_calls' # fetch_calls =>
            /\ pc = "fetch"
            /\ fetch_calls' = [fetch_calls EXCEPT ![url] = @ + 1]]_vars
    /\ [][(pc' = "fetch" /\ pc # "fetch") =>
            /\ pc = "rate" /\ url' = url
            /\ clocked => domain_delays'[_get_domain(url)] = 0]_vars
    /\ [][(pc' = "rate" /\ pc # "rate") =>
            /\ pc = "robots" /\ url' = url
            /\ \/ ~follow
               \/ robots_cache'[_get_domain(url)] = "allow"
               \/ /\ robots_cache'[_get_domain(url)] = "rules"
                  /\ url # "a/private/x"]_vars

\* a URL is being fetched whose host has rules read from robots.txt
C26_Witness ==
    /\ pc = "html" /\ follow
    /\ fetch_calls[url] = 1
    /\ robots_cache[_get_domain(url)] = "rules"

\* C27: the step on which fetch_and_extract ends with a final null (the
\* HTML retries are used up and the browser is missing or gave nothing
\* either) counts one error for the URL
C27_NullCountsError ==
    [][(pc \in {"html", "browser", "fallback"} /\ pc' = "record") =>
          errors' = errors + 1]_vars

\* C28: crawl() never ends with an exception raised while a dequeued URL
\* is being processed
C28_NothingEscapes == ~(entry = "crawl" /\ pc = "raised" /\ url # None)

\* C29: no step of fetch_and_extract (the fetches, the extraction, the
\* browser refetch) ends in the caller's except branch: the engine gives
\* its caller a triple for every fetch outcome and every page content
C29_EngineNeverRaises ==
    [][(pc \in {"html", "browser", "fallback", "extract", "refetch"}) =>
          errors' = errors]_vars

\* C30: when stop() was called while fetch_and_extract was in flight for a
\* URL and resume() was not called since, the iteration of that URL ends
\* with its page recorded as visited, and no further URL is popped
C30_StopLetsFetchFinish ==
    [][(stopped_for # None /\ stopped_for' = stopped_for) =>
          /\ (pc \in InFlight \cup {"record"} /\ pc' = "loop") =>
                stopped_for \in visited'
          /\ queue' = queue]_vars

\* C31: a crawl loop halted by pause() with URLs still in the queue keeps
\* its place at the iteration boundary, so that a later resume() lets the
\* crawl process them: the paused crawl does not return
C31_PausedLoopWaits ==
    [][(pc = "loop" /\ current_status = "paused" /\ ~running
        /\ queue # <<>>) => pc' = "loop"]_vars

C33_CountersContinue ==
    rs_stage \notin {"off", "data"} =>
        /\ pages_crawled >= checkpoint_data.pages_crawled
        /\ items_extracted >= checkpoint_data.items_extracted

\* C34: whenever no sink call is in progress, items_extracted of the
\* session is the number of items delivered to the result sink in it
C34_ItemsCountDelivered ==
    (session_set /\ pc # "sink") => items_extracted = delivered

\* C35: in AUTO mode a fetch for a host with BROWSER remembered begins with
\* the browser fetcher and a fetch for a host with nothing remembered
\* begins with the HTML fetcher; a fetch that began with the browser
\* fetcher never goes on to an HTML attempt, whatever the browser returns;
\* and a remembered BROWSER stays
C35_AutoUsesMemory ==
    /\ [][(pc = "fetch" /\ pc' # pc /\ mode = AUTO) =>
            pc' = IF domain_modes[_get_domain(url)] = BROWSER
                  THEN "browser" ELSE "html"]_vars
    /\ [][(pc = "browser" /\ pc' # pc) => pc' \in {"extract", "record"}]_vars
    /\ [][(pc' = "html" /\ pc # "html") => pc = "fetch"]_vars
    /\ [][\A h \in Hosts : domain_modes[h] = BROWSER =>
                              domain_modes'[h] = BROWSER]_vars

\* an AUTO fetch for a host with BROWSER remembered is at the browser
\* fetcher, no HTML attempt made
C35_Witness ==
    /\ mode = AUTO /\ pc = "browser" /\ attempt = 0
    /\ domain_modes[_get_domain(url)] = BROWSER
    /\ fetch_calls[url] = 1

\* C36: in AsyncCrawler.fetch every attempt is followed by exactly one
\* random delay: while the delay of the last attempt is pending the task
\* has slept one delay less than it made attempts, otherwise as many; and
\* a fetch that returned the body has slept the delay of its 200 answer
C36_OneDelayPerAttempt ==
    \A t \in Tasks :
       /\ f_delays[t] = IF f_pc[t] \in {"ok_delay", "retry_delay"}
                        THEN f_tries[t] - 1 ELSE f_tries[t]
       /\ f_ret[t] = "body" =>
             f_last[t] = "200" /\ f_delays[t] = f_tries[t]

\* a fetch returned the body on its second attempt, after two delays
C36_Witness ==
    \E t \in Tasks : /\ f_pc[t] = "returned" /\ f_ret[t] = "body"
                      /\ f_tries[t] = 2 /\ f_failed[t] = 1
                      /\ f_delays[t] = 2

\* C37: fetch_batch returns a tuple for exactly the URLs whose fetch gave
\* markup, in the order of the URL list: a fetch that returned None or
\* raised contributes no tuple
C37_BatchOnlySuccesses ==
    b_stage = "returned" =>
        /\ \A k \in 1..Len(b_ret) : b_ret[k].html # None
        /\ Len(b_ret) = Cardinality({i \in 1..Len(b_urls) :
                                        b_task[i] = "html"})

\* C38: the depth check of crawl() on a dequeued URL ends in one of two
\* ways: the URL is skipped and the loop continues, or the URL goes on to
\* the robots check; counters are left alone
C38_DepthCheckSkipsOrPasses ==
    [][(entry = "crawl" /\ pc = "loop" /\ queue' # queue) =>
          /\ pc' \in {"loop", "robots"}
          /\ pages_crawled' = pages_crawled /\ errors' = errors]_vars

\* C39: every return of crawl() and of crawl_multi_domain() comes out of
\* the final checkpoint, which is taken after the loop has ended
C39_FinalCheckpointBeforeReturn ==
    [][(pc' = "done" /\ pc # "done") => pc = "final"]_vars

\* C40: in a crawl called with mode HTML no step goes to the browser
\* fetcher, writes the remembered modes or counts an automatic switch
C40_HtmlOnly ==
    [][(mode = HTML /\ pc \notin {"idle", "done", "raised"}) =>
          /\ pc' \notin {"browser", "fallback", "refetch"}
          /\ domain_modes' = domain_modes
          /\ auto_switches' = auto_switches]_vars

====
